---------------------------- MODULE Spec2Model ----------------------------
(* Model of src/index.ts: the batch conversion of .kpp brush presets into   *)
(* xml / json / brushes / patterns output files.                            *)
EXTENDS Integers, Sequences, FiniteSets, TLC

(***************************************************************************)
(* Strings.  TLC treats a string as a sequence of one-character strings.   *)
(***************************************************************************)
CharAt(s, i) == SubSeq(s, i, i)

StartsWith(s, p) == Len(s) >= Len(p) /\ SubSeq(s, 1, Len(p)) = p

\* String.prototype.endsWith, used at src/index.ts:25
EndsWith(s, suf) ==
    Len(s) >= Len(suf) /\ SubSeq(s, Len(s) - Len(suf) + 1, Len(s)) = suf

Drop(s, n) == SubSeq(s, n + 1, Len(s))

Digits == {"0", "1", "2", "3", "4", "5", "6", "7", "8", "9"}

Letters ==
    {"a", "b", "c", "d", "e", "f", "g", "h", "i", "j", "k", "l", "m",
     "n", "o", "p", "q", "r", "s", "t", "u", "v", "w", "x", "y", "z",
     "A", "B", "C", "D", "E", "F", "G", "H", "I", "J", "K", "L", "M",
     "N", "O", "P", "Q", "R", "S", "T", "U", "V", "W", "X", "Y", "Z"}

\* the regular expression class \w
WordChars == Digits \cup Letters \cup {"_"}

\* path.basename(file, ".kpp"): the file names are plain names, the suffix
\* is removed when the name ends with it and is longer than it.
Basename(file, ext) ==
    IF EndsWith(file, ext) /\ Len(file) > Len(ext)
    THEN SubSeq(file, 1, Len(file) - Len(ext))
    ELSE file

(***************************************************************************)
(* Markup carried inside a string.  A string value of the program may      *)
(* itself be markup (the brush definition).  The field d of a text says    *)
(* what the markup parser makes of it: wf = FALSE when the parser throws,  *)
(* root = the root element's tag ("" when there is no element), attrs the  *)
(* root's attributes as written, kids the attributes of its child          *)
(* elements (tag -> attributes).  Attribute maps are partial functions:    *)
(* an attribute that is not written is not in the DOMAIN.                  *)
(***************************************************************************)
NoAttrs == [a \in {} |-> ""]

NoKids == [a \in {} |-> NoAttrs]

PlainText == [wf |-> TRUE, root |-> "", attrs |-> NoAttrs, kids |-> NoKids]

Malformed == [wf |-> FALSE, root |-> "", attrs |-> NoAttrs, kids |-> NoKids]

Element(tag, attrs, kids) ==
    [wf |-> TRUE, root |-> tag, attrs |-> attrs, kids |-> kids]

(***************************************************************************)
(* JavaScript values: k is the typeof, s the value as String(v) gives it,  *)
(* d the markup a string carries.                                          *)
(***************************************************************************)
Undefined == [k |-> "undefined", s |-> "undefined", d |-> PlainText]

Null == [k |-> "null", s |-> "null", d |-> PlainText]

Str(s) == [k |-> "string", s |-> s, d |-> PlainText]

Markup(s, d) == [k |-> "string", s |-> s, d |-> d]

Num(s) == [k |-> "number", s |-> s, d |-> PlainText]

NaN == Num("NaN")

Bool(b) == [k |-> "boolean", s |-> IF b THEN "true" ELSE "false", d |-> PlainText]

\* ToBoolean: what `if (v)`, `!v` and `v || w` test
Truthy(v) ==
    CASE v.k = "undefined" -> FALSE
      [] v.k = "null" -> FALSE
      [] v.k = "boolean" -> v.s = "true"
      [] v.k = "number" -> v.s \notin {"0", "NaN"}
      [] OTHER -> v.s # ""

\* a || b
Or(a, b) == IF Truthy(a) THEN a ELSE b

\* v !== null && v !== undefined
Present(v) == v.k \notin {"null", "undefined"}

\* obj[key] of an object held as a partial function
Get(obj, key) == IF key \in DOMAIN obj THEN obj[key] ELSE Undefined

\* obj[key] = v
Put(obj, key, v) == (key :> v) @@ obj

EmptyObject == [key \in {} |-> Undefined]

(***************************************************************************)
(* Numbers as the markup parser and parseFloat read them.  A numeral here  *)
(* is digits with at most one ".", digits after it; its value is kept as   *)
(* the string String(number) gives: "0.0" is 0, "1.0" is 1, "007" is 7.    *)
(***************************************************************************)
IsNumeral(s) ==
    /\ Len(s) > 0
    /\ \A i \in 1..Len(s) : CharAt(s, i) \in Digits \cup {"."}
    /\ Cardinality({i \in 1..Len(s) : CharAt(s, i) = "."}) <= 1
    /\ CharAt(s, Len(s)) # "."

RECURSIVE StripLeadingZeros(_)
StripLeadingZeros(s) ==
    IF Len(s) > 0 /\ CharAt(s, 1) = "0" THEN StripLeadingZeros(Drop(s, 1)) ELSE s

RECURSIVE StripTrailingZeros(_)
StripTrailingZeros(s) ==
    IF Len(s) > 0 /\ CharAt(s, Len(s)) = "0"
    THEN StripTrailingZeros(SubSeq(s, 1, Len(s) - 1))
    ELSE s

\* Number(s) for a numeral s, as a number value
ToNumber(s) ==
    LET dots == {i \in 1..Len(s) : CharAt(s, i) = "."}
        dot == IF dots = {} THEN Len(s) + 1 ELSE CHOOSE i \in dots : TRUE
        ip == StripLeadingZeros(SubSeq(s, 1, dot - 1))
        fp == StripTrailingZeros(SubSeq(s, dot + 1, Len(s)))
        int == IF ip = "" THEN "0" ELSE ip
    IN  Num(IF fp = "" THEN int ELSE int \o "." \o fp)

\* parseFloat(v): the longest numeral the text starts with, NaN without one
ParseFloat(v) ==
    IF v.k = "number" THEN v
    ELSE LET ns == {n \in 1..Len(v.s) : IsNumeral(SubSeq(v.s, 1, n))}
         IN  IF ns = {} THEN NaN
             ELSE ToNumber(SubSeq(v.s, 1, CHOOSE n \in ns : \A m \in ns : m <= n))

(***************************************************************************)
(* The markup parser as configured at src/index.ts:28-36.                  *)
(***************************************************************************)
\* parseAttributeValue / parseTagValue: "true" and "false" become booleans,
\* numerals become numbers, anything else stays the string it is
ParseValue(s) ==
    IF s = "true" THEN Bool(TRUE)
    ELSE IF s = "false" THEN Bool(FALSE)
    ELSE IF IsNumeral(s) THEN ToNumber(s)
    ELSE Str(s)

\* el.<name> for an attribute of a parsed element (attributeNamePrefix "")
Attr(attrs, name) ==
    IF name \in DOMAIN attrs THEN ParseValue(attrs[name]) ELSE Undefined

\* An element with no attribute and no content parses to "", which is falsy;
\* any other element parses to an object
ElementTruthy(attrs, kids) == DOMAIN attrs # {} \/ DOMAIN kids # {}

\* The text of an element is parsed like an attribute value unless it is
\* markup itself (parseTagValue); a CDATA section is kept as the string it is
ParseTagValue(t) == IF t.d = PlainText THEN ParseValue(t.s) ELSE t

(***************************************************************************)
(* The preset markup: [wf, root, attrs, params].  params are the <param>   *)
(* children of the root in document order, each [attrs, body]: attrs the   *)
(* attributes as written, body the text and the CDATA section it holds     *)
(* (a partial function over {"text", "cdata"}).                            *)
(***************************************************************************)
\* A <param> with nothing but text parses to that text, a primitive with no
\* properties; an empty one parses to ""
IsPrimitiveParam(p) == DOMAIN p.attrs = {} /\ DOMAIN p.body \subseteq {"text"}

\* param.<name> of one parsed entry
ParamProp(p, name) ==
    IF IsPrimitiveParam(p) THEN Undefined
    ELSE IF name \in DOMAIN p.attrs THEN ParseValue(p.attrs[name])
    ELSE IF name = "text" /\ "text" \in DOMAIN p.body THEN ParseTagValue(p.body["text"])
    ELSE IF name = "cdata" /\ "cdata" \in DOMAIN p.body THEN p.body["cdata"]
    ELSE Undefined

\* truthiness of one parsed entry
ParamTruthy(p) ==
    IF ~IsPrimitiveParam(p) THEN TRUE
    ELSE IF DOMAIN p.body = {} THEN FALSE
    ELSE Truthy(ParseTagValue(p.body["text"]))

\* jsonObj.Preset?.<name>  (src/index.ts:255-256)
PresetProp(doc, name) ==
    IF doc.root = "Preset" THEN Attr(doc.attrs, name) ELSE Undefined

\* if (jsonObj.Preset?.param): no child is undefined, one child is that
\* entry, several are an array (always truthy)   (src/index.ts:261)
HasParamList(doc) ==
    /\ doc.root = "Preset"
    /\ Len(doc.params) > 0
    /\ (Len(doc.params) = 1 => ParamTruthy(doc.params[1]))

\* Array.isArray(param) ? param : [param]   (src/index.ts:262-264)
ParamArray(doc) == doc.params

\* param.value || param.text || param.cdata || ""   (src/index.ts:269)
ParamValue(p) ==
    Or(Or(Or(ParamProp(p, "value"), ParamProp(p, "text")), ParamProp(p, "cdata")), Str(""))

\* for (const param of params) if (param.name) parameters[param.name] = ...
\* (src/index.ts:266-271); a property key is the name as a string
RECURSIVE FlattenParams(_, _)
FlattenParams(params, acc) ==
    IF params = <<>> THEN acc
    ELSE LET p == Head(params)
             n == ParamProp(p, "name")
         IN  FlattenParams(Tail(params),
                 IF Truthy(n) THEN Put(acc, n.s, ParamValue(p)) ELSE acc)

\* a mutant of TransformPreset: jsonObj.Preset.name without the optional
\* chaining, a TypeError when the tree has no Preset root
TransformPresetUnchained(doc) ==
    [threw |-> doc.root # "Preset",
     name |-> Or(PresetProp(doc, "name"), Str("")),
     paintopid |-> Or(PresetProp(doc, "paintopid"), Str("")),
     parameters |-> IF HasParamList(doc)
                    THEN FlattenParams(ParamArray(doc), EmptyObject)
                    ELSE EmptyObject]

\* transformedObj   (src/index.ts:254-272).  threw: the statements raised an
\* exception; with ?. on every access of Preset they never do
TransformPreset(doc) ==
    [threw |-> FALSE,
     name |-> Or(PresetProp(doc, "name"), Str("")),
     paintopid |-> Or(PresetProp(doc, "paintopid"), Str("")),
     parameters |-> IF HasParamList(doc)
                    THEN FlattenParams(ParamArray(doc), EmptyObject)
                    ELSE EmptyObject]

(***************************************************************************)
(* parseBrushDefinition   (src/index.ts:39-73)                             *)
(***************************************************************************)
BrushFields == {"type", "spacing", "angle", "scale", "randomness", "density", "filename"}

MaskFields == {"type", "diameter", "ratio", "hfade", "vfade", "spikes"}

\* return null
NullBrushDef ==
    [threw |-> FALSE,
     null |-> TRUE,
     f |-> [n \in BrushFields |-> Null],
     hasMask |-> FALSE,
     mg |-> [n \in MaskFields |-> Null]]

\* brush.<n> || null   (src/index.ts:47-53, 59-64)
BrushField(attrs, n) == Or(Attr(attrs, n), Null)

\* the try block: d is the markup the string carries
BrushDefOf(d) ==
    IF ~(d.root = "Brush" /\ ElementTruthy(d.attrs, d.kids)) THEN NullBrushDef
    ELSE LET hasMask ==
                 /\ "MaskGenerator" \in DOMAIN d.kids
                 /\ ElementTruthy(d.kids["MaskGenerator"], NoKids)
         IN  [threw |-> FALSE,
              null |-> FALSE,
              f |-> [n \in BrushFields |-> BrushField(d.attrs, n)],
              hasMask |-> hasMask,
              mg |-> [n \in MaskFields |->
                         IF hasMask THEN BrushField(d.kids["MaskGenerator"], n)
                         ELSE Undefined]]

\* a mutant of parseBrushDefinition: no try/catch, the parser's exception
\* leaves the function
parseBrushDefinitionUncaught(v) ==
    IF ~v.d.wf THEN [NullBrushDef EXCEPT !.threw = TRUE] ELSE BrushDefOf(v.d)

\* parseBrushDefinition: the parser throws on markup that is not well formed,
\* the exception is caught and null returned; threw: an exception left the
\* function
parseBrushDefinition(v) == IF ~v.d.wf THEN NullBrushDef ELSE BrushDefOf(v.d)

(***************************************************************************)
(* extractBrushParameters   (src/index.ts:76-197)                          *)
(***************************************************************************)
NumericShapeKeys == {"spacing", "angle", "scale", "randomness", "density"}

StringShapeKeys == {"filename", "type"}

\* output key -> mask generator field   (src/index.ts:107-138)
MaskSource ==
    [key \in {"size", "roundness", "hfade", "vfade", "spikes"} |->
        CASE key = "size" -> "diameter"
          [] key = "roundness" -> "ratio"
          [] OTHER -> key]

ShapeKeys == NumericShapeKeys \cup StringShapeKeys \cup DOMAIN MaskSource

\* src/index.ts:80-140
ShapeFields(parameters) ==
    LET bd == Get(parameters, "brush_definition")
        def == parseBrushDefinition(bd)
        keys == {n \in NumericShapeKeys : Present(def.f[n])}
                \cup {n \in StringShapeKeys : Truthy(def.f[n])}
        mkeys == IF def.hasMask
                 THEN {key \in DOMAIN MaskSource : Present(def.mg[MaskSource[key]])}
                 ELSE {}
    IN  IF ~Truthy(bd) \/ def.null THEN EmptyObject
        ELSE [key \in mkeys |-> def.mg[MaskSource[key]]] @@ [n \in keys |-> def.f[n]]

\* output key -> parameter   (src/index.ts:143-157)
DynamicSource ==
    [key \in {"opacity", "scatter", "flow"} |->
        CASE key = "opacity" -> "OpacityValue"
          [] key = "scatter" -> "ScatterValue"
          [] OTHER -> "FlowValue"]

DynamicFields(parameters) ==
    [key \in {o \in DOMAIN DynamicSource : Present(Get(parameters, DynamicSource[o]))} |->
        Get(parameters, DynamicSource[key])]

\* sensorMappings   (src/index.ts:160-166)
sensorMappings ==
    [key \in {"pressureOpacity", "pressureSize", "pressureRotation",
              "pressureScatter", "pressureFlow"} |->
        CASE key = "pressureOpacity" -> "OpacitySensor"
          [] key = "pressureSize" -> "SizeSensor"
          [] key = "pressureRotation" -> "RotationSensor"
          [] key = "pressureScatter" -> "ScatterSensor"
          [] OTHER -> "FlowSensor"]

\* v.<name> of a parameter value: the values FlattenParams stores are strings,
\* numbers and booleans, none of which has a property params or curve
Member(v, name) == Undefined

\* src/index.ts:168-176
SensorFields(parameters) ==
    [key \in {o \in DOMAIN sensorMappings :
                /\ Truthy(Get(parameters, sensorMappings[o]))
                /\ Truthy(Member(Get(parameters, sensorMappings[o]), "params"))
                /\ Present(Member(Member(Get(parameters, sensorMappings[o]), "params"), "curve"))} |->
        Member(Member(Get(parameters, sensorMappings[key]), "params"), "curve")]

\* src/index.ts:179-194
TextureFields(parameters) ==
    LET keys == {key \in {"patternScale", "patternStrength"} :
                   /\ Truthy(Get(parameters, "Texture/Pattern/Pattern"))
                   /\ Present(Get(parameters,
                          IF key = "patternScale" THEN "Texture/Pattern/Scale"
                          ELSE "Texture/Pattern/Strength"))}
    IN  [key \in keys |->
            IF key = "patternScale" THEN Get(parameters, "Texture/Pattern/Scale")
            ELSE ParseFloat(Get(parameters, "Texture/Pattern/Strength"))]

\* an exception leaves extractBrushParameters: only parseBrushDefinition
\* could raise one
ExtractThrows(parameters) ==
    /\ Truthy(Get(parameters, "brush_definition"))
    /\ parseBrushDefinition(Get(parameters, "brush_definition")).threw

\* brushData: later assignments win, the keys of the four blocks are disjoint
extractBrushParameters(parameters) ==
    TextureFields(parameters) @@ SensorFields(parameters)
        @@ DynamicFields(parameters) @@ ShapeFields(parameters)

(***************************************************************************)
(* savePatternBitmap   (src/index.ts:200-211)                              *)
(***************************************************************************)
DataUrlHead == "data:image/"

DataUrlTail == ";base64,"

\* the length of the match of /^data:image\/\w+;base64,/ in s, 0 without one
DataUrlMatch(s) ==
    LET h == Len(DataUrlHead)
        ends == {j \in (h + 1)..Len(s) :
                   /\ \A i \in (h + 1)..j : CharAt(s, i) \in WordChars
                   /\ StartsWith(Drop(s, j), DataUrlTail)}
    IN  IF StartsWith(s, DataUrlHead) /\ ends # {}
        THEN (CHOOSE j \in ends : TRUE) + Len(DataUrlTail)
        ELSE 0

\* base64Data.replace(/^data:image\/\w+;base64,/, "")
StripDataUrl(s) == Drop(s, DataUrlMatch(s))

Base64Alphabet == "ABCDEFGHIJKLMNOPQRSTUVWXYZabcdefghijklmnopqrstuvwxyz0123456789+/"

\* the 6-bit value of a character, -1 for a character outside the alphabet
\* (the URL-safe "-" and "_" are accepted too)
Unbase64(c) ==
    LET at == {i \in 1..Len(Base64Alphabet) : CharAt(Base64Alphabet, i) = c}
    IN  IF c = "-" THEN 62
        ELSE IF c = "_" THEN 63
        ELSE IF at = {} THEN -1
        ELSE (CHOOSE i \in at : TRUE) - 1

\* The 6-bit values Buffer.from(s, "base64") reads: a character outside the
\* alphabet is skipped, "=" ends the input.  No input raises an exception.
RECURSIVE Sextets(_)
Sextets(s) ==
    IF s = "" \/ CharAt(s, 1) = "=" THEN <<>>
    ELSE IF Unbase64(CharAt(s, 1)) < 0 THEN Sextets(Drop(s, 1))
    ELSE <<Unbase64(CharAt(s, 1))>> \o Sextets(Drop(s, 1))

RECURSIVE BytesOf(_)
BytesOf(x) ==
    IF Len(x) < 2 THEN <<>>
    ELSE LET b1 == (x[1] * 4 + x[2] \div 16) % 256
         IN  IF Len(x) = 2 THEN <<b1>>
             ELSE LET b2 == ((x[2] % 16) * 16 + x[3] \div 4) % 256
                  IN  IF Len(x) = 3 THEN <<b1, b2>>
                      ELSE <<b1, b2, ((x[3] % 4) * 64 + x[4]) % 256>>
                               \o BytesOf(SubSeq(x, 5, Len(x)))

\* Buffer.from(base64Clean, "base64")
Base64Decode(s) == BytesOf(Sextets(s))

\* src/index.ts:203-204: replace is a method of strings only, so any other
\* value raises a TypeError; the decoding itself never fails
PatternDecode(v) ==
    IF v.k # "string" THEN [threw |-> TRUE, bytes |-> <<>>]
    ELSE [threw |-> FALSE, bytes |-> Base64Decode(StripDataUrl(v.s))]

\* savePatternBitmap: writes says whether fs.writeFileSync succeeds.  The
\* result is true, with the bytes written, when nothing in the try block
\* threw, and false otherwise
savePatternBitmap(base64Data, writes) ==
    [saved |-> ~PatternDecode(base64Data).threw /\ writes,
     bytes |-> PatternDecode(base64Data).bytes]

\* writeToDisk: the directory is there (created at lines 12-21), the file is
\* created or replaced
writeToDisk(dir, fileName, data) == Put(dir, fileName, data)

(***************************************************************************)
(* JSON.stringify: NaN is written as null, a property that is undefined    *)
(* is left out.                                                            *)
(***************************************************************************)
JsonObject(obj) ==
    [key \in {x \in DOMAIN obj : obj[x].k # "undefined"} |->
        IF obj[key] = NaN THEN Null ELSE obj[key]]

(***************************************************************************)
(* The batch   (src/index.ts:232-341)                                      *)
(*                                                                         *)
(* A file of the input directory is [tags, doc]: tags says what the tag    *)
(* extractor makes of it ("unreadable": reading or extraction throws,      *)
(* "none": no preset tag, "empty": a preset tag with an empty value,       *)
(* "preset": a preset tag whose value is the markup doc).                  *)
(***************************************************************************)
VARIABLES
    kppDir,          \* the input directory: file name -> file
    files,           \* the .kpp files of it, in listing order (line 25)
    i,               \* the position of the loop in files, from 1
    pc,              \* where the program is
    transformedObj,  \* of the file being processed (line 254)
    brushData,       \* of the file being processed (line 291)
    outputXmlDir,          \* output/xml: file name -> content
    outputJsonDir,         \* output/json
    outputPatternsDir,     \* output/patterns
    outputBrushesDir,      \* output/brushes
    console          \* the lines printed so far

vars == <<kppDir, files, i, pc, transformedObj, brushData,
          outputXmlDir, outputJsonDir, outputPatternsDir, outputBrushesDir, console>>

NoPresetDoc == [wf |-> TRUE, root |-> "", attrs |-> NoAttrs, params |-> <<>>]

NoTransformed ==
    [threw |-> FALSE, name |-> Str(""), paintopid |-> Str(""), parameters |-> EmptyObject]

NoFiles == [name \in {} |-> ""]

file == files[i]

\* path.basename(file, ".kpp")   (src/index.ts:237)
baseName == Basename(file, ".kpp")

\* a mutant of HasPreset: only the tag is tested, not its value
HasPresetTagOnly(f) == f.tags \in {"preset", "empty"}

\* !(!tags.preset || !tags.preset.value)   (src/index.ts:246)
HasPreset(f) == f.tags = "preset"

\* the end of one iteration: the next file, nothing kept of this one
NextFile ==
    /\ i' = i + 1
    /\ pc' = "loop"
    /\ transformedObj' = NoTransformed
    /\ brushData' = EmptyObject

\* a mutant of Catch: the error leaves the loop
CatchRethrow(lines) ==
    /\ console' = console \o lines
    /\ pc' = "crashed"
    /\ UNCHANGED <<i, transformedObj, brushData>>

\* catch (error) { console.error(...) }, then the next iteration
\* (src/index.ts:332-338)
Catch(lines) ==
    /\ console' = console \o lines \o <<" Error processing " \o file>>
    /\ NextFile

\* the start of an iteration to the end of the preset decode
\* (src/index.ts:236-272): read the file, extract its tags, parse the preset
\* markup and flatten its param list
ReadAndDecode ==
    /\ pc = "loop"
    /\ i <= Len(files)
    /\ LET f == kppDir[file]
           start == <<"Processing: " \o file>>
           t == TransformPreset(f.doc)
       IN  IF f.tags = "unreadable" THEN Catch(start)
           ELSE IF ~HasPreset(f)
           THEN /\ console' = console \o start \o <<" No preset data found in " \o file>>
                /\ NextFile
           ELSE IF ~f.doc.wf \/ t.threw THEN Catch(start)
           ELSE /\ console' = console \o start
                /\ transformedObj' = t
                /\ pc' = "writeXml"
                /\ UNCHANGED <<i, brushData>>
    /\ UNCHANGED <<kppDir, files, outputXmlDir, outputJsonDir, outputPatternsDir, outputBrushesDir>>

\* writeToDisk of the raw markup (src/index.ts:275-280); the write either
\* succeeds or throws and leaves no file
WriteXml ==
    /\ pc = "writeXml"
    /\ \E ok \in BOOLEAN :
          IF ok
          THEN /\ outputXmlDir' = writeToDisk(outputXmlDir, baseName \o ".xml", kppDir[file].doc)
               /\ console' = Append(console, "  Saved XML to output/xml/" \o baseName \o ".xml")
               /\ pc' = "writeJson"
               /\ UNCHANGED <<i, transformedObj, brushData>>
          ELSE Catch(<<>>) /\ UNCHANGED outputXmlDir
    /\ UNCHANGED <<kppDir, files, outputJsonDir, outputPatternsDir, outputBrushesDir>>

\* writeToDisk of the parsed preset, then extractBrushParameters
\* (src/index.ts:283-291)
WriteJson ==
    /\ pc = "writeJson"
    /\ \E ok \in BOOLEAN :
          IF ok
          THEN /\ outputJsonDir' = writeToDisk(outputJsonDir, baseName \o ".json",
                                 [name |-> transformedObj.name,
                                  paintopid |-> transformedObj.paintopid,
                                  parameters |-> JsonObject(transformedObj.parameters)])
               /\ IF ExtractThrows(transformedObj.parameters)
                  THEN Catch(<<"  Saved full JSON to output/json/" \o baseName \o ".json">>)
                  ELSE /\ console' = Append(console,
                              "  Saved full JSON to output/json/" \o baseName \o ".json")
                       /\ brushData' = extractBrushParameters(transformedObj.parameters)
                       /\ pc' = "savePattern"
                       /\ UNCHANGED <<i, transformedObj>>
          ELSE Catch(<<>>) /\ UNCHANGED outputJsonDir
    /\ UNCHANGED <<kppDir, files, outputXmlDir, outputPatternsDir, outputBrushesDir>>

\* a mutant of PatternFileKey: the key is set whether or not the save worked
PatternFileKeyAlways(saved, data, base) == Put(data, "patternFile", Str(base \o "_pattern.png"))

\* if (saved) brushData.patternFile = ...   (src/index.ts:303-308)
PatternFileKey(saved, data, base) ==
    IF saved THEN Put(data, "patternFile", Str(base \o "_pattern.png")) ELSE data

\* src/index.ts:294-309 with savePatternBitmap (200-211): saved is false when
\* the decode or the write throws, and then no file is left
SavePattern ==
    /\ pc = "savePattern"
    /\ LET v == Get(transformedObj.parameters, "Texture/Pattern/Pattern")
       IN  IF ~Truthy(v)
           THEN UNCHANGED <<outputPatternsDir, brushData, console>>
           ELSE \E writes \in BOOLEAN :
                  LET result == savePatternBitmap(v, writes)
                      saved == result.saved
                  IN  /\ outputPatternsDir' =
                            IF saved
                            THEN Put(outputPatternsDir, baseName \o "_pattern.png", result.bytes)
                            ELSE outputPatternsDir
                      /\ brushData' = PatternFileKey(saved, brushData, baseName)
                      /\ console' = Append(console,
                             IF saved
                             THEN "  Saved pattern to output/patterns/" \o baseName \o "_pattern.png"
                             ELSE "Error saving pattern bitmap:")
    /\ pc' = "writeBrush"
    /\ UNCHANGED <<kppDir, files, i, transformedObj, outputXmlDir, outputJsonDir, outputBrushesDir>>

\* src/index.ts:312-331
WriteBrush ==
    /\ pc = "writeBrush"
    /\ \E ok \in BOOLEAN :
          IF ok
          THEN /\ outputBrushesDir' = Put(outputBrushesDir, baseName \o "_brush.json",
                                    [name |-> transformedObj.name,
                                     paintopid |-> transformedObj.paintopid,
                                     brush |-> JsonObject(brushData)])
               /\ console' = Append(console,
                     "  Saved brush data to output/brushes/" \o baseName \o "_brush.json")
               /\ NextFile
          ELSE Catch(<<>>) /\ UNCHANGED outputBrushesDir
    /\ UNCHANGED <<kppDir, files, outputXmlDir, outputJsonDir, outputPatternsDir>>

\* the loop is over   (src/index.ts:341)
Complete ==
    /\ pc = "loop"
    /\ i > Len(files)
    /\ console' = Append(console, "Processing complete!")
    /\ pc' = "done"
    /\ UNCHANGED <<kppDir, files, i, transformedObj, brushData,
                   outputXmlDir, outputJsonDir, outputPatternsDir, outputBrushesDir>>

Next == ReadAndDecode \/ WriteXml \/ WriteJson \/ SavePattern \/ WriteBrush \/ Complete

(***************************************************************************)
(* Inputs                                                                  *)
(***************************************************************************)
MaxFiles == 2

MaxParams == 2

NoBody == [b \in {} |-> Str("")]

WithValue(n, v) == [attrs |-> ("name" :> n) @@ ("value" :> v), body |-> NoBody]

WithText(n, txt) == [attrs |-> ("name" :> n), body |-> ("text" :> Str(txt))]

WithCdata(n, c) == [attrs |-> ("name" :> n), body |-> ("cdata" :> c)]

\* brush definitions, as the CDATA section of the brush_definition param
BrushAuto ==
    Markup("<Brush type='auto' spacing='0.1'><MaskGenerator diameter='50' ratio='1.0'/></Brush>",
           Element("Brush", ("type" :> "auto") @@ ("spacing" :> "0.1"),
                   ("MaskGenerator" :> (("diameter" :> "50") @@ ("ratio" :> "1.0")))))

BrushZeroAngle ==
    Markup("<Brush type='auto' angle='0' spacing='0.1'><MaskGenerator diameter='50' hfade='0'/></Brush>",
           Element("Brush", ("type" :> "auto") @@ ("angle" :> "0") @@ ("spacing" :> "0.1"),
                   ("MaskGenerator" :> (("diameter" :> "50") @@ ("hfade" :> "0")))))

BrushPng ==
    Markup("<Brush type='png_brush' filename='tip.png' scale='1' density='0.5'/>",
           Element("Brush", ("type" :> "png_brush") @@ ("filename" :> "tip.png")
                            @@ ("scale" :> "1") @@ ("density" :> "0.5"), NoKids))

BrushBare == Markup("<Brush/>", Element("Brush", NoAttrs, NoKids))

BrushBareMask ==
    Markup("<Brush randomness='0.2'><MaskGenerator/></Brush>",
           Element("Brush", ("randomness" :> "0.2"), ("MaskGenerator" :> NoAttrs)))

OtherRoot == Markup("<Tip spacing='0.1'/>", Element("Tip", ("spacing" :> "0.1"), NoKids))

BrokenBrush == Markup("<Brush spacing='0.1'", Malformed)

BrushTexts ==
    {BrushAuto, BrushZeroAngle, BrushPng, BrushBare, BrushBareMask, OtherRoot,
     BrokenBrush, Str("none")}

\* pattern payloads: base64 of the bytes "PNG", bare, as a data URL, and with
\* characters that are not base64
PatternTexts == {Str("UE5H"), Str("data:image/png;base64,UE5H"), Str("UE*5H!")}

RichParams ==
    {WithCdata("brush_definition", b) : b \in BrushTexts}
    \cup {WithValue("brush_definition", "")}
    \cup {WithCdata("Texture/Pattern/Pattern", x) : x \in PatternTexts}
    \cup {WithValue("Texture/Pattern/Pattern", v) : v \in {"5", "true", ""}}
    \cup {WithValue("OpacityValue", v) : v \in {"0.8", "0"}}
    \cup {WithCdata("OpacityValue", Str("1")), WithText("ScatterValue", "0.3"),
          WithValue("FlowValue", "true"), WithValue("OpacitySensor", "curve"),
          WithValue("Texture/Pattern/Scale", "1.5"),
          WithValue("Texture/Pattern/Strength", "0.5"),
          WithValue("Texture/Pattern/Strength", "abc")}
    \cup {[attrs |-> NoAttrs, body |-> NoBody],
          [attrs |-> NoAttrs, body |-> ("text" :> Str("stray"))],
          [attrs |-> ("value" :> "7"), body |-> NoBody],
          WithValue("", "7"), WithValue("0", "7"), WithValue("42", "7"),
          WithValue("false", "7")}
    \cup {[attrs |-> ("name" :> "OpacityValue") @@ ("value" :> "0"),
           body |-> ("text" :> Str("0.6"))],
          [attrs |-> ("name" :> "FlowValue"),
           body |-> ("text" :> Str("0.4")) @@ ("cdata" :> Str("0.9"))],
          [attrs |-> ("name" :> "ScatterValue"), body |-> NoBody]}

Lists(S, n) == UNION {[1..m -> S] : m \in 0..n}

RootAttrs == {NoAttrs, ("name" :> "Ink") @@ ("paintopid" :> "brush")}

BrokenPreset == [wf |-> FALSE, root |-> "", attrs |-> NoAttrs, params |-> <<>>]

NoRootPreset == [wf |-> TRUE, root |-> "", attrs |-> NoAttrs, params |-> <<>>]

PresetDocs(attrs, lists) ==
    {BrokenPreset, NoRootPreset}
    \cup {[wf |-> TRUE, root |-> "Preset", attrs |-> a, params |-> l] :
            a \in attrs, l \in lists}

Unreadable == [tags |-> "unreadable", doc |-> NoPresetDoc]

Contents(docs) ==
    {Unreadable, [tags |-> "none", doc |-> NoPresetDoc], [tags |-> "empty", doc |-> NoPresetDoc]}
    \cup {[tags |-> "preset", doc |-> d] : d \in docs}

RichContents == Contents(PresetDocs(RootAttrs, Lists(RichParams, MaxParams)))

\* the files of a batch: one of each kind of failure, and presets that work
BatchLists ==
    {<<WithCdata("brush_definition", BrokenBrush), WithValue("Texture/Pattern/Pattern", "5")>>,
     <<WithCdata("brush_definition", BrushAuto), WithCdata("Texture/Pattern/Pattern", Str("UE5H"))>>}

BatchContents == Contents(PresetDocs({("name" :> "Ink") @@ ("paintopid" :> "brush")}, BatchLists))

KppName(n) == "brush" \o ToString(n) \o ".kpp"

\* the directory listing: n presets and a file that is not one
Listing(n) == [k \in 1..n |-> KppName(k)] \o <<"notes.txt">>

IsKpp(name) == EndsWith(name, ".kpp")

\* the state at src/index.ts:233, for a directory of n presets drawn from S:
\* the output directories exist and are empty, files is the filtered listing
InitWith(n, S) ==
    /\ \E a \in [{KppName(k) : k \in 1..n} -> S] : kppDir = a @@ ("notes.txt" :> Unreadable)
    /\ files = SelectSeq(Listing(n), IsKpp)
    /\ i = 1
    /\ pc = "loop"
    /\ transformedObj = NoTransformed
    /\ brushData = EmptyObject
    /\ outputXmlDir = NoFiles
    /\ outputJsonDir = NoFiles
    /\ outputPatternsDir = NoFiles
    /\ outputBrushesDir = NoFiles
    /\ console = <<"Found " \o ToString(n) \o " .kpp files to process">>

Init == \E n \in 0..MaxFiles : InitWith(n, BatchContents)

InitOne == InitWith(1, RichContents)

\* a batch of up to MaxFiles files
Spec == Init /\ [][Next]_vars

\* one file, with up to MaxParams params drawn from RichParams
OneFileSpec == InitOne /\ [][Next]_vars

(***************************************************************************)
(* Properties                                                              *)
(***************************************************************************)
Positions == 1..Len(files)

Input(k) == kppDir[files[k]]

Base(k) == Basename(files[k], ".kpp")

XmlOf(k) == Base(k) \o ".xml"

JsonOf(k) == Base(k) \o ".json"

PatternOf(k) == Base(k) \o "_pattern.png"

BrushOf(k) == Base(k) \o "_brush.json"

\* the output files of the k-th file that exist
OutputsOf(k) ==
    {<<"xml", n>> : n \in {XmlOf(k)} \cap DOMAIN outputXmlDir}
    \cup {<<"json", n>> : n \in {JsonOf(k)} \cap DOMAIN outputJsonDir}
    \cup {<<"patterns", n>> : n \in {PatternOf(k)} \cap DOMAIN outputPatternsDir}
    \cup {<<"brushes", n>> : n \in {BrushOf(k)} \cap DOMAIN outputBrushesDir}

ProgressPrefix == "Processing: "

\* the files named by the progress lines printed so far, in order
Attempted ==
    LET lines == SelectSeq(console, LAMBDA l : StartsWith(l, ProgressPrefix))
    IN  [k \in 1..Len(lines) |-> Drop(lines[k], Len(ProgressPrefix))]

\* the k-th file holds a preset whose markup parses
Parses(k) == Input(k).tags = "preset" /\ Input(k).doc.wf

\* how far the run is: the loop position, then the step within the file
Progress ==
    i * 6 + (CASE pc = "loop" -> 0
               [] pc = "writeXml" -> 1
               [] pc = "writeJson" -> 2
               [] pc = "savePattern" -> 3
               [] pc = "writeBrush" -> 4
               [] OTHER -> 5)

\* C1: whatever fails in single files, the loop attempts the files of the
\* list one after the other in list order (the files attempted so far are
\* always the first i-1 or i files of the list), the run never stops before
\* the completion step (a step is possible in every state but the final one,
\* and every step moves the run forward, so the completion step is reached),
\* and by then every file of the list has been attempted.
C1_BatchCompletes ==
    /\ [](/\ pc \in {"loop", "writeXml", "writeJson", "savePattern", "writeBrush", "done"}
          /\ Len(Attempted) \in {i - 1, i}
          /\ Attempted = SubSeq(files, 1, Len(Attempted))
          /\ (pc = "done" => Attempted = files /\ i = Len(files) + 1)
          /\ (pc = "done" \/ ENABLED Next))
    /\ [][Progress' > Progress /\ i' \in {i, i + 1}]_vars

\* C1 witness: the run is complete; the first file's brush definition did
\* not parse, its pattern could not be decoded and its brush JSON could not
\* be written; the second file was processed to the end.
C1_Witness ==
    /\ pc = "done"
    /\ Len(files) >= 2
    /\ Parses(1)
    /\ ~Get(TransformPreset(Input(1).doc).parameters, "brush_definition").d.wf
    /\ ~savePatternBitmap(Get(TransformPreset(Input(1).doc).parameters,
                              "Texture/Pattern/Pattern"), TRUE).saved
    /\ OutputsOf(1) = {<<"xml", XmlOf(1)>>, <<"json", JsonOf(1)>>}
    /\ BrushOf(2) \in DOMAIN outputBrushesDir

NoPresetTag(k) == Input(k).tags \in {"none", "empty"}

\* C2: a file whose tags hold no preset tag, or a preset tag with no value,
\* has no output file in any of the four directories at any time, the
\* program is never past the decode step with it, and the step that reads it
\* leaves the four directories as they are and moves to the next file.
C2_NoPresetWritesNothing ==
    /\ [](\A k \in Positions :
             NoPresetTag(k) => OutputsOf(k) = {} /\ (i = k => pc = "loop"))
    /\ [][(pc = "loop" /\ i <= Len(files) /\ NoPresetTag(i))
            => /\ UNCHANGED <<outputXmlDir, outputJsonDir, outputPatternsDir, outputBrushesDir>>
               /\ i' = i + 1
               /\ pc' = "loop"]_vars

\* C2 witness: a file without preset data has been passed, and the run has
\* written output for another file.
C2_Witness ==
    /\ \E k \in Positions : NoPresetTag(k) /\ k < i
    /\ DOMAIN outputBrushesDir # {}

\* C10: the artifacts of a file are written in the order xml, json, pattern,
\* brush JSON: a file's json exists only if its xml does, its pattern and its
\* brush JSON only if its json does, and a brush JSON that records
\* patternFile names the pattern file of the same base name, which exists.
C10_WriteOrder ==
    \A k \in Positions :
       /\ JsonOf(k) \in DOMAIN outputJsonDir => XmlOf(k) \in DOMAIN outputXmlDir
       /\ PatternOf(k) \in DOMAIN outputPatternsDir => JsonOf(k) \in DOMAIN outputJsonDir
       /\ BrushOf(k) \in DOMAIN outputBrushesDir =>
            /\ XmlOf(k) \in DOMAIN outputXmlDir
            /\ JsonOf(k) \in DOMAIN outputJsonDir
            /\ "patternFile" \in DOMAIN outputBrushesDir[BrushOf(k)].brush =>
                 /\ outputBrushesDir[BrushOf(k)].brush["patternFile"] = Str(PatternOf(k))
                 /\ PatternOf(k) \in DOMAIN outputPatternsDir
       /\ (k > i \/ (k = i /\ pc = "loop")) => OutputsOf(k) = {}
       /\ (k = i /\ pc = "writeJson") => OutputsOf(k) = {<<"xml", XmlOf(k)>>}
       /\ (k = i /\ pc = "savePattern") =>
            OutputsOf(k) = {<<"xml", XmlOf(k)>>, <<"json", JsonOf(k)>>}

\* C10 witness: one file stopped after its xml, another has all four
\* artifacts and its brush JSON records the pattern file.
C10_Witness ==
    \E k, m \in Positions :
       /\ OutputsOf(k) = {<<"xml", XmlOf(k)>>}
       /\ k < i
       /\ Cardinality(OutputsOf(m)) = 4
       /\ "patternFile" \in DOMAIN outputBrushesDir[BrushOf(m)].brush

\* the characters of a base64 payload, padding included
IsBase64Text(s) ==
    /\ Len(s) % 4 = 0
    /\ \A n \in 1..Len(s) : Unbase64(CharAt(s, n)) >= 0 \/ CharAt(s, n) = "="

\* the payload is a string that is base64, with or without the data URL head
WellFormedPayload(v) == v.k = "string" /\ v.s # "" /\ IsBase64Text(StripDataUrl(v.s))

MalformedPayload(v) == v.k = "string" /\ v.s # "" /\ ~IsBase64Text(StripDataUrl(v.s))

\* the pattern parameter of the k-th file, as written to its json
PatternParam(k) == Get(outputJsonDir[JsonOf(k)].parameters, "Texture/Pattern/Pattern")

\* C3, as claimed: in a brush JSON, patternFile is recorded only for a
\* payload that decodes, with the value <base>_pattern.png, it is recorded
\* whenever the payload decodes and the pattern file was written, and a
\* payload that is not base64 leaves no pattern file and no patternFile key.
C3_PatternFileIffDecoded ==
    \A k \in Positions :
       BrushOf(k) \in DOMAIN outputBrushesDir =>
          LET brush == outputBrushesDir[BrushOf(k)].brush
              v == PatternParam(k)
          IN  /\ "patternFile" \in DOMAIN brush =>
                   WellFormedPayload(v) /\ brush["patternFile"] = Str(PatternOf(k))
              /\ (WellFormedPayload(v) /\ PatternOf(k) \in DOMAIN outputPatternsDir)
                   => "patternFile" \in DOMAIN brush
              /\ MalformedPayload(v) =>
                   PatternOf(k) \notin DOMAIN outputPatternsDir /\ "patternFile" \notin DOMAIN brush

\* the brush definition being projected
BrushDefinition == Get(transformedObj.parameters, "brush_definition")

HasBrushRoot(v) == Truthy(v) /\ v.d.wf /\ v.d.root = "Brush"

MaskAttrs(d) ==
    IF "MaskGenerator" \in DOMAIN d.kids THEN d.kids["MaskGenerator"] ELSE NoAttrs

\* C4, as claimed: once the projection has run on a definition with a Brush
\* root, each descriptor field is a key of the brush data exactly if it is an
\* attribute of the root, each mask field (under its output key) exactly if
\* it is an attribute of the mask generator, and each carries the parsed
\* source value.
C4_FieldsIffPresent ==
    (pc = "savePattern" /\ HasBrushRoot(BrushDefinition)) =>
       LET d == BrushDefinition.d
       IN  /\ \A n \in BrushFields :
                /\ n \in DOMAIN brushData <=> n \in DOMAIN d.attrs
                /\ n \in DOMAIN brushData => brushData[n] = ParseValue(d.attrs[n])
           /\ \A key \in DOMAIN MaskSource :
                /\ key \in DOMAIN brushData <=> MaskSource[key] \in DOMAIN MaskAttrs(d)
                /\ key \in DOMAIN brushData =>
                      brushData[key] = ParseValue(MaskAttrs(d)[MaskSource[key]])

\* the entries of a param list that carry a name
Named(ps) == {j \in 1..Len(ps) : "name" \in DOMAIN ps[j].attrs /\ ps[j].attrs["name"] # ""}

\* the property key a name attribute makes
KeyOf(p) == ParseValue(p.attrs["name"]).s

\* the last entry of the list with the key of entry j
IsLast(ps, j) == \A m \in Named(ps) : KeyOf(ps[m]) = KeyOf(ps[j]) => m <= j

HasList(k) == Parses(k) /\ Input(k).doc.root = "Preset" /\ Input(k).doc.params # <<>>

\* C5, as claimed: the keys of the parameters written to json/<base>.json are
\* exactly the names on the param entries, and each key holds what its last
\* entry gives.
C5_KeysAreNames ==
    \A k \in Positions :
       (HasList(k) /\ JsonOf(k) \in DOMAIN outputJsonDir) =>
          LET ps == Input(k).doc.params
              out == outputJsonDir[JsonOf(k)].parameters
          IN  /\ DOMAIN out = {KeyOf(ps[j]) : j \in Named(ps)}
              /\ \A j \in Named(ps) :
                    (IsLast(ps, j) /\ KeyOf(ps[j]) \in DOMAIN out)
                       => out[KeyOf(ps[j])] = ParamValue(ps[j])

\* the first of value, text, CDATA that the entry has, "" when it has none
FirstPresent(p) ==
    IF "value" \in DOMAIN p.attrs THEN ParseValue(p.attrs["value"])
    ELSE IF "text" \in DOMAIN p.body THEN ParseTagValue(p.body["text"])
    ELSE IF "cdata" \in DOMAIN p.body THEN p.body["cdata"]
    ELSE Str("")

\* C6, as claimed: the value stored under a key is the first field its (last)
\* entry has, in the order value, text, CDATA, and "" when it has none.
C6_FirstPresentWins ==
    \A k \in Positions :
       (HasList(k) /\ JsonOf(k) \in DOMAIN outputJsonDir) =>
          LET ps == Input(k).doc.params
              out == outputJsonDir[JsonOf(k)].parameters
          IN  \A j \in Named(ps) :
                 (IsLast(ps, j) /\ KeyOf(ps[j]) \in DOMAIN out)
                    => out[KeyOf(ps[j])] = FirstPresent(ps[j])

\* the markup parses, and has no Preset root or a root without param entries
NoParamList(k) ==
    Parses(k) /\ (Input(k).doc.root # "Preset" \/ Input(k).doc.params = <<>>)

NoShapeSource(parameters) ==
    \/ "brush_definition" \notin DOMAIN parameters
    \/ ~parameters["brush_definition"].d.wf
    \/ parameters["brush_definition"].d.root # "Brush"

\* C8: when the brush definition is absent, does not parse or has no Brush
\* root, the step that writes the json and projects the parameters goes on
\* to the pattern step and from there to the write of the brush JSON (the
\* definition aborts nothing), and the brush object written has none of the
\* shape keys and has opacity, scatter and flow exactly for those of
\* OpacityValue, ScatterValue and FlowValue that are in the parameter map,
\* with their values.
C8_NoShapeKeepsDynamics ==
    /\ [](\A k \in Positions :
             (BrushOf(k) \in DOMAIN outputBrushesDir
                /\ NoShapeSource(outputJsonDir[JsonOf(k)].parameters)) =>
                LET brush == outputBrushesDir[BrushOf(k)].brush
                    parameters == outputJsonDir[JsonOf(k)].parameters
                IN  /\ DOMAIN brush \cap ShapeKeys = {}
                    /\ \A key \in DOMAIN DynamicSource :
                          /\ key \in DOMAIN brush <=> DynamicSource[key] \in DOMAIN parameters
                          /\ key \in DOMAIN brush => brush[key] = parameters[DynamicSource[key]])
    /\ [][/\ (pc = "writeJson" /\ NoShapeSource(transformedObj.parameters)
                /\ outputJsonDir' # outputJsonDir) => (pc' = "savePattern" /\ i' = i)
          /\ (pc = "savePattern" /\ NoShapeSource(transformedObj.parameters))
                => (pc' = "writeBrush" /\ i' = i)]_vars

\* C8 witness: the brush JSON of a file whose brush definition does not
\* parse is on disk and holds opacity.
C8_Witness ==
    \E k \in Positions :
       /\ BrushOf(k) \in DOMAIN outputBrushesDir
       /\ "brush_definition" \in DOMAIN outputJsonDir[JsonOf(k)].parameters
       /\ ~outputJsonDir[JsonOf(k)].parameters["brush_definition"].d.wf
       /\ "opacity" \in DOMAIN outputBrushesDir[BrushOf(k)].brush

\* C9, as claimed: once the projection has run, patternScale is a key of the
\* brush data exactly if Texture/Pattern/Scale is a parameter, and then has
\* its value; patternStrength is a key exactly if Texture/Pattern/Strength
\* is a parameter.
C9_PatternKeysIndependent ==
    pc = "savePattern" =>
       /\ "patternScale" \in DOMAIN brushData
             <=> "Texture/Pattern/Scale" \in DOMAIN transformedObj.parameters
       /\ "patternScale" \in DOMAIN brushData
             => brushData["patternScale"] = transformedObj.parameters["Texture/Pattern/Scale"]
       /\ "patternStrength" \in DOMAIN brushData
             <=> "Texture/Pattern/Strength" \in DOMAIN transformedObj.parameters

=============================================================================
